---- MODULE Spec2Model ----
(***************************************************************************)
(* vscode-debugger-mcp: the SSE transport (SSEServer), the protocol router *)
(* (MCPServer) and the debug control facade (DebuggerTools).               *)
(***************************************************************************)
EXTENDS Integers, Sequences, FiniteSets, Bags, TLC

VARIABLES
  clients,           \* SSEServer.clients: a JS Set, kept in insertion order
  nextConn,          \* the next GET /sse connection to arrive (fresh channel id)
  firstEvent,        \* per GET /sse channel, the first event written to it
  ended,             \* channels stop() has ended whose connection is still open
  server,            \* SSEServer.server and the state of that http.Server
  inflight,          \* POST handlers suspended at an await of the adapter (a bag)
  last,              \* the HTTP exchange completed by the step just taken
  session,           \* vscode.debug.activeDebugSession is set
  paused,            \* the debuggee is stopped: the adapter can give a stack trace
  breakpoints,       \* vscode.debug.breakpoints
  workspaceFolders   \* vscode.workspace.workspaceFolders (fsPath of each)

vars ==
  <<clients, nextConn, firstEvent, ended, server, inflight, last, session, paused,
    breakpoints, workspaceFolders>>

\* the http server and the channels it has ended
lifecycle == <<server, ended>>

(***************************************************************************)
(* Bounds of the model.                                                    *)
(***************************************************************************)
MaxConns == 3        \* GET /sse connections over a run
MaxInflight == 2     \* POST handlers suspended at the same time
MaxBreakpoints == 2  \* breakpoints held by the IDE

(***************************************************************************)
(* JavaScript values.                                                      *)
(***************************************************************************)
Undef == "undefined"   \* a missing string-valued field
NoNum == -1            \* a missing number-valued field
NaN == -2              \* undefined - 1, undefined + 1
Null == "null"         \* id: null of the transport's own error replies

\* MCPErrorCode
ParseError == -32700
InvalidRequest == -32600
MethodNotFound == -32601
InvalidParams == -32602
InternalError == -32603
ServerError == -32000

\* StepType
StepTypes == {"stepOver", "stepInto", "stepOut", "continue", "pause"}

\* The DAP primitive each StepType issues (switch of stepDebugger).
StepCommand(type) ==
  CASE type = "stepOver" -> "next"
    [] type = "stepInto" -> "stepIn"
    [] type = "stepOut" -> "stepOut"
    [] type = "continue" -> "continue"
    [] type = "pause" -> "pause"

StepCommands == {StepCommand(t) : t \in StepTypes}

(***************************************************************************)
(* MCPServer.tools: the registry, with the fields each inputSchema lists   *)
(* as required.                                                            *)
(***************************************************************************)
tools ==
  << [name |-> "set_breakpoint", required |-> {"path", "line"}],
     [name |-> "remove_breakpoint", required |-> {"path", "line"}],
     [name |-> "evaluate_expression", required |-> {"expression"}],
     [name |-> "list_debug_configurations", required |-> {}],
     [name |-> "start_debugging", required |-> {}],
     [name |-> "stop_debugging", required |-> {}],
     [name |-> "get_debug_status", required |-> {}],
     [name |-> "step_debugger", required |-> {"type"}] >>

ToolNames == {tools[i].name : i \in DOMAIN tools}

\* this.tools.find(t => t.name === name) finds an entry
ToolFound(name) == \E i \in DOMAIN tools : tools[i].name = name

ToolRequired(name) == tools[CHOOSE i \in DOMAIN tools : tools[i].name = name].required

(***************************************************************************)
(* Requests.  params is {name, arguments}; arguments carries the fields of *)
(* BreakpointParams, EvaluateParams, StepParams and configName.            *)
(***************************************************************************)
EmptyArgs ==
  [path |-> Undef, line |-> NoNum, condition |-> Undef, expression |-> Undef,
   frameId |-> NoNum, type |-> Undef, threadId |-> NoNum, configName |-> Undef]

\* The fields an arguments object carries.
ArgFields(args) ==
  {f \in {"path", "condition", "expression", "type", "configName"} : args[f] # Undef}
    \cup {f \in {"line", "frameId", "threadId"} : args[f] # NoNum}

NoParams == [present |-> FALSE, name |-> Undef, hasArgs |-> FALSE, args |-> EmptyArgs]
CallParams(name, args) == [present |-> TRUE, name |-> name, hasArgs |-> TRUE, args |-> args]
CallNoArgs(name) == [present |-> TRUE, name |-> name, hasArgs |-> FALSE, args |-> EmptyArgs]

Request(jsonrpc, id, method, params) ==
  [jsonrpc |-> jsonrpc, id |-> id, method |-> method, params |-> params]

EmptyRequest == Request(Undef, Undef, Undef, NoParams)

\* A POST body as the handler sees req.body: a string JSON.parse rejects, a
\* string that parses to null, or an object (parsed from a string or by
\* express.json()).
BadBody == [kind |-> "unparseable", request |-> EmptyRequest]
NullBody == [kind |-> "null", request |-> EmptyRequest]
ObjectBody(r) == [kind |-> "object", request |-> r]

(***************************************************************************)
(* Responses.                                                              *)
(***************************************************************************)
NoResult == [present |-> FALSE]
NoError == [present |-> FALSE]

Response(id, result, error) ==
  [jsonrpc |-> "2.0", id |-> id, result |-> result, error |-> error]

createErrorResponseWithResult(id, code, message) ==
  Response(id, [present |-> TRUE, kind |-> "null"],
           [present |-> TRUE, code |-> code, message |-> message, data |-> Undef])

\* MCPServer.createErrorResponse (data is never passed by the router)
createErrorResponse(id, code, message) ==
  Response(id, NoResult,
           [present |-> TRUE, code |-> code, message |-> message, data |-> Undef])

\* MCPServer.handleInitialize
handleInitialize(request) ==
  Response(request.id,
           [present |-> TRUE, kind |-> "initialize", protocolVersion |-> "2024-11-05",
            serverInfo |-> [name |-> "vscode-debugger-mcp", version |-> "0.0.1"]],
           NoError)

\* MCPServer.handleToolsList
handleToolsList(request) ==
  Response(request.id, [present |-> TRUE, kind |-> "tools", tools |-> tools], NoError)

\* The success envelope of handleToolsCall: {content: [{type: 'text', text}]}
ToolResponse(id, result) ==
  Response(id, [present |-> TRUE, kind |-> "content", type |-> "text", text |-> result],
           NoError)

ParseErrorReplyAsInvalidRequest ==
  Response(Null, NoResult,
           [present |-> TRUE, code |-> InvalidRequest, message |-> "Parse error",
            data |-> Undef])

\* The reply of the POST handler's JSON.parse catch.
ParseErrorReply ==
  Response(Null, NoResult,
           [present |-> TRUE, code |-> ParseError, message |-> "Parse error", data |-> Undef])

TransportErrorReplyAsServerError(errorMessage) ==
  Response(Null, NoResult,
           [present |-> TRUE, code |-> ServerError, message |-> "Internal error",
            data |-> errorMessage])

\* The reply of the POST handler's outer catch; data is the error's message.
TransportErrorReply(errorMessage) ==
  Response(Null, NoResult,
           [present |-> TRUE, code |-> InternalError, message |-> "Internal error",
            data |-> errorMessage])

\* JSON.stringify: a member whose value is undefined is left out.
Opt(cond, rec) == IF cond THEN rec ELSE [k \in {} |-> 0]

StringifyError(e) ==
  [code |-> e.code, message |-> e.message] @@ Opt(e.data # Undef, [data |-> e.data])

Stringify(resp) ==
  [jsonrpc |-> resp.jsonrpc]
    @@ Opt(resp.id # Undef, [id |-> resp.id])
    @@ Opt(resp.result.present, [result |-> resp.result])
    @@ Opt(resp.error.present, [error |-> StringifyError(resp.error)])

(***************************************************************************)
(* Paths (node path, for the POSIX paths of the model).                    *)
(***************************************************************************)
StartsWith(s, prefix) == Len(s) >= Len(prefix) /\ SubSeq(s, 1, Len(prefix)) = prefix

\* path.isAbsolute
IsAbsolute(p) == StartsWith(p, "/")

\* path.join(folder, p), for p without '.' and '..' segments
Join(folder, p) == folder \o "/" \o p

\* path.relative(folder, p) for a one-segment folder and an absolute p
Relative(folder, p) ==
  IF p = folder THEN ""
  ELSE IF StartsWith(p, folder \o "/") THEN SubSeq(p, Len(folder) + 2, Len(p))
  ELSE "../" \o SubSeq(p, 2, Len(p))

\* DebuggerTools.getRelativePath
RECURSIVE RelativeIn(_, _, _)
RelativeIn(folders, i, absolutePath) ==
  IF i > Len(folders) THEN absolutePath
  ELSE IF StartsWith(absolutePath, folders[i]) THEN Relative(folders[i], absolutePath)
  ELSE RelativeIn(folders, i + 1, absolutePath)

getRelativePath(folders, absolutePath) == RelativeIn(folders, 1, absolutePath)

(***************************************************************************)
(* The debug control facade.  A facade operation runs until it returns,    *)
(* throws, or awaits the IDE / the debug adapter; the outcome says which.  *)
(***************************************************************************)
Return(result, bps) == [kind |-> "return", result |-> result, breakpoints |-> bps]
Throw(isError, message) == [kind |-> "throw", isError |-> isError, message |-> message]
Await(cmd, threadId, locals) ==
  [kind |-> "await", cmd |-> cmd, threadId |-> threadId, locals |-> locals]

NoLocals == [threads |-> <<>>, view |-> <<>>]

TypeErrorOf(field) ==
  Throw(TRUE, "Cannot read properties of undefined (reading '" \o field \o "')")

\* params.line - 1, and the === of two line numbers
LineMinusOne(line) == IF line = NoNum THEN NaN ELSE line - 1
LinePlusOne(line) == IF line = NaN THEN NaN ELSE line + 1
StrictEq(a, b) == a # NaN /\ b # NaN /\ a = b

\* String(error) of a caught value (a rejection with undefined has the
\* message Undef)
ErrorToString(reply) ==
  IF reply.isError THEN "Error: " \o reply.message ELSE reply.message

\* the value a promise was rejected with is undefined or null
Nullish(reply) == ~reply.ok /\ ~reply.isError /\ reply.message = Undef

\* DebuggerTools.resolveFilePath: an outcome, its result the absolute path
resolveFilePath(env, filePath) ==
  IF filePath = Undef
    THEN Throw(TRUE, "The \"path\" argument must be of type string. Received undefined")
  ELSE IF IsAbsolute(filePath) THEN Return(filePath, env.breakpoints)
  ELSE IF Len(env.workspaceFolders) = 0 THEN Throw(TRUE, "No workspace folder open")
  ELSE Return(Join(env.workspaceFolders[1], filePath), env.breakpoints)

\* DebuggerTools.setBreakpoint
setBreakpoint(env, hasArgs, args) ==
  IF ~hasArgs THEN TypeErrorOf("path")
  ELSE LET resolved == resolveFilePath(env, args.path)
           line0 == LineMinusOne(args.line)
           location == [source |-> TRUE, path |-> resolved.result, line |-> line0,
                        enabled |-> TRUE, condition |-> args.condition]
       IN IF resolved.kind = "throw" THEN resolved
          ELSE IF line0 = NaN /\ ~env.nanLineOk
            THEN Throw(TRUE, "Illegal argument: line must be non-negative")
          ELSE Return([path |-> args.path, line |-> LinePlusOne(line0),
                       enabled |-> TRUE, condition |-> args.condition],
                      Append(env.breakpoints, location))

ToRemoveAnyLine(bp, absolutePath, line) == bp.source /\ bp.path = absolutePath

\* the breakpoints.filter of removeBreakpoint keeps these for removal
ToRemove(bp, absolutePath, line) ==
  bp.source /\ bp.path = absolutePath /\ StrictEq(bp.line, LineMinusOne(line))

\* DebuggerTools.removeBreakpoint
removeBreakpoint(env, hasArgs, args) ==
  IF ~hasArgs THEN TypeErrorOf("path")
  ELSE LET resolved == resolveFilePath(env, args.path)
       IN IF resolved.kind = "throw" THEN resolved
          ELSE Return([success |-> TRUE],
                      SelectSeq(env.breakpoints,
                                LAMBDA bp : ~ToRemove(bp, resolved.result, args.line)))

\* DebuggerTools.evaluateExpression, up to its await
evaluateExpression(env, hasArgs, args) ==
  IF ~env.session THEN Throw(TRUE, "No active debug session")
  ELSE IF ~hasArgs
    THEN Throw(TRUE, "Failed to evaluate expression: TypeError: Cannot read properties of undefined (reading 'expression')")
  ELSE Await("evaluate", NoNum, NoLocals)

\* DebuggerTools.listDebugConfigurations
listDebugConfigurations(env) == Return([configurations |-> env.configs], env.breakpoints)

\* DebuggerTools.startDebugging, up to its await
startDebugging(env, configName) ==
  IF configName # Undef
    THEN IF \E i \in DOMAIN env.configs : env.configs[i] = configName
           THEN Await("startDebugging", NoNum, NoLocals)
           ELSE Throw(TRUE, "Debug configuration '" \o configName \o "' not found")
  ELSE IF Len(env.configs) > 0 THEN Await("startDebugging", NoNum, NoLocals)
  ELSE Throw(TRUE, "No debug configurations found")

stopDebuggingUnchecked(env) == Await("stopDebugging", NoNum, NoLocals)

\* DebuggerTools.stopDebugging, up to its await
stopDebugging(env) ==
  IF ~env.session THEN Throw(TRUE, "No active debug session")
  ELSE Await("stopDebugging", NoNum, NoLocals)

\* A breakpoint of the IDE that is no vscode.SourceBreakpoint (a function
\* breakpoint the user has set).
FunctionBreakpoint ==
  [source |-> FALSE, path |-> Undef, line |-> NoNum, enabled |-> TRUE, condition |-> Undef]

\* bp instanceof vscode.SourceBreakpoint, over vscode.debug.breakpoints
SourceBreakpoints(bps) == SelectSeq(bps, LAMBDA bp : bp.source)

\* The breakpoints of a DebugStatus: path relative to the workspace, 1-based line
BreakpointView(env) ==
  LET sourceBreakpoints == SourceBreakpoints(env.breakpoints)
  IN [i \in DOMAIN sourceBreakpoints |->
        [path |-> getRelativePath(env.workspaceFolders, sourceBreakpoints[i].path),
         line |-> LinePlusOne(sourceBreakpoints[i].line),
         enabled |-> sourceBreakpoints[i].enabled,
         condition |-> sourceBreakpoints[i].condition]]

MainThread == [id |-> 1, name |-> "main"]

\* The value getDebugStatus returns.
DebugStatus(isActive, threads, activeThreadId, hasStackFrames, view) ==
  [isActive |-> isActive, isPaused |-> hasStackFrames, activeSession |-> isActive,
   threads |-> threads, activeThreadId |-> activeThreadId,
   stackFrames |-> hasStackFrames, breakpoints |-> view]

\* JSON.stringify(result, null, 2) of handleToolsCall, for a DebugStatus:
\* the members that are undefined are left out.
StringifyStatus(status) ==
  [isActive |-> status.isActive, isPaused |-> status.isPaused,
   breakpoints |-> status.breakpoints]
    @@ Opt(status.activeSession, [activeSession |-> [name |-> "session"]])
    @@ Opt(status.threads # <<>>, [threads |-> status.threads])
    @@ Opt(status.activeThreadId # NoNum, [activeThreadId |-> status.activeThreadId])
    @@ Opt(status.stackFrames, [stackFrames |-> <<"frame">>])

getDebugStatusSynthetic(env) ==
  IF ~env.session
    THEN Return(DebugStatus(FALSE, <<MainThread>>, 1, FALSE, BreakpointView(env)),
                env.breakpoints)
  ELSE Await("threads", NoNum, [threads |-> <<>>, view |-> BreakpointView(env)])

\* DebuggerTools.getDebugStatus, up to its first await
getDebugStatus(env) ==
  IF ~env.session
    THEN Return(DebugStatus(FALSE, <<>>, NoNum, FALSE, BreakpointView(env)), env.breakpoints)
  ELSE Await("threads", NoNum, [threads |-> <<>>, view |-> BreakpointView(env)])

\* getDebugStatus resumed by the reply to 'threads'.  The catch of a failed
\* listing reads error.message, which throws when the rejection carries
\* undefined or null.
getDebugStatusThreads(frame, reply) ==
  IF Nullish(reply)
    THEN Throw(TRUE, "Cannot read properties of undefined (reading 'message')")
  ELSE IF ~reply.ok
    THEN Return(DebugStatus(TRUE, <<MainThread>>, 1, FALSE, frame.locals.view), <<>>)
  ELSE LET threads == IF Len(reply.threads) = 0 THEN <<MainThread>> ELSE reply.threads
       IN Await("stackTrace", threads[1].id,
                [threads |-> threads, view |-> frame.locals.view])

\* getDebugStatus resumed by the reply to 'stackTrace'
getDebugStatusStack(frame, reply) ==
  Return(DebugStatus(TRUE, frame.locals.threads, frame.threadId,
                     reply.ok /\ reply.hasFrames, frame.locals.view), <<>>)

stepSwitchDefaultContinue(type, threadId) ==
  IF type \in StepTypes THEN Await(StepCommand(type), threadId, NoLocals)
  ELSE Await("continue", threadId, NoLocals)

\* the switch of stepDebugger
stepSwitch(type, threadId) ==
  IF type \in StepTypes THEN Await(StepCommand(type), threadId, NoLocals)
  ELSE Throw(TRUE, "Unknown step type: " \o type)

\* DebuggerTools.stepDebugger, up to its first await
stepDebugger(env, hasArgs, args) ==
  IF ~env.session THEN Throw(TRUE, "No active debug session")
  ELSE IF ~hasArgs THEN TypeErrorOf("threadId")
  ELSE IF args.threadId = NoNum \/ args.threadId = 0
    THEN Await("threads", NoNum, NoLocals)
  ELSE stepSwitch(args.type, args.threadId)

stepDebuggerThreadsDefault(frame, reply) == stepSwitch(frame.request.params.args.type, 1)

\* stepDebugger resumed by the reply to 'threads'
stepDebuggerThreads(frame, reply) ==
  stepSwitch(frame.request.params.args.type,
             IF reply.ok /\ Len(reply.threads) > 0 THEN reply.threads[1].id ELSE 1)

\* evaluateExpression resumed by the reply to 'evaluate'
evaluateExpressionReply(reply) ==
  IF reply.ok
    THEN Return([value |-> IF reply.result = "" THEN "undefined" ELSE reply.result], <<>>)
  ELSE Throw(TRUE, "Failed to evaluate expression: " \o ErrorToString(reply))

\* an operation whose last await was answered: it returns, or the rejection
\* propagates to its caller
AwaitedLast(reply) ==
  IF reply.ok THEN Return([success |-> TRUE], <<>>)
  ELSE Throw(reply.isError, reply.message)

\* The facade operation handleToolsCall's switch invokes, up to its first await.
ToolStart(name, hasArgs, args, env) ==
  CASE name = "set_breakpoint" -> setBreakpoint(env, hasArgs, args)
    [] name = "remove_breakpoint" -> removeBreakpoint(env, hasArgs, args)
    [] name = "evaluate_expression" -> evaluateExpression(env, hasArgs, args)
    [] name = "list_debug_configurations" -> listDebugConfigurations(env)
    [] name = "start_debugging" -> startDebugging(env, args.configName)
    [] name = "stop_debugging" -> stopDebugging(env)
    [] name = "get_debug_status" -> getDebugStatus(env)
    [] name = "step_debugger" -> stepDebugger(env, hasArgs, args)

\* The suspended facade operation of `frame`, resumed by `reply`.
ToolResume(frame, reply) ==
  LET name == frame.request.params.name
  IN CASE name = "get_debug_status" /\ frame.cmd = "threads" ->
            getDebugStatusThreads(frame, reply)
       [] name = "get_debug_status" /\ frame.cmd = "stackTrace" ->
            getDebugStatusStack(frame, reply)
       [] name = "step_debugger" /\ frame.cmd = "threads" ->
            stepDebuggerThreads(frame, reply)
       [] name = "evaluate_expression" -> evaluateExpressionReply(reply)
       [] OTHER -> AwaitedLast(reply)

(***************************************************************************)
(* The protocol router.                                                    *)
(***************************************************************************)
CaughtMessageFixed(outcome) == "Tool execution failed"

\* error instanceof Error ? error.message : 'Tool execution failed'
CaughtMessage(outcome) ==
  IF outcome.isError THEN outcome.message ELSE "Tool execution failed"

ToolOutcomeResponseNullId(request, outcome) ==
  IF outcome.kind = "return" THEN ToolResponse(request.id, outcome.result)
  ELSE createErrorResponse(Null, InternalError, CaughtMessage(outcome))

\* handleToolsCall's try/catch around the switch: the Response of a facade
\* operation that returned or threw.
ToolOutcomeResponse(request, outcome) ==
  IF outcome.kind = "return" THEN ToolResponse(request.id, outcome.result)
  ELSE createErrorResponse(request.id, InternalError, CaughtMessage(outcome))

\* const { name, arguments: args } = request.params || {}
ParamsOf(request) == IF request.params.present THEN request.params ELSE NoParams

\* What handleRequest has come to: a Response, a rejection of its promise,
\* or a facade operation suspended at an await.  facadeCalls lists the facade
\* operations invoked so far.
NoFailure == [threw |-> FALSE]
Failure(outcome) ==
  [threw |-> TRUE, isError |-> outcome.isError, message |-> outcome.message]

Responds(response, bps, facadeCalls) ==
  [kind |-> "response", response |-> response, breakpoints |-> bps,
   facadeCalls |-> facadeCalls, failure |-> NoFailure]
Rejects(message) ==
  [kind |-> "reject", message |-> message, facadeCalls |-> <<>>, failure |-> NoFailure]
Suspends(outcome, facadeCalls) ==
  [kind |-> "await", cmd |-> outcome.cmd, threadId |-> outcome.threadId,
   locals |-> outcome.locals, facadeCalls |-> facadeCalls]

\* handleToolsCall from the point a facade operation has returned, thrown or
\* suspended; bps is vscode.debug.breakpoints at that point.
ToolsCallContinue(request, outcome, bps, facadeCalls) ==
  IF outcome.kind = "await" THEN Suspends(outcome, facadeCalls)
  ELSE [Responds(ToolOutcomeResponse(request, outcome), bps, facadeCalls)
          EXCEPT !.failure = IF outcome.kind = "throw" THEN Failure(outcome) ELSE NoFailure]

\* vscode.debug.breakpoints once a facade operation started from env has run
BreakpointsAfter(env, outcome) ==
  IF outcome.kind = "return" THEN outcome.breakpoints ELSE env.breakpoints

\* handleToolsCall's switch, for a registered tool
InvokeTool(request, env, outcome) ==
  ToolsCallContinue(request, outcome, BreakpointsAfter(env, outcome),
                    <<ParamsOf(request).name>>)

ToolNotFoundAsMethod(request, name) ==
  createErrorResponse(request.id, MethodNotFound, "Tool '" \o name \o "' not found")

\* handleToolsCall's Response for a name the registry does not hold
ToolNotFound(request, name) ==
  createErrorResponse(request.id, InvalidParams, "Tool '" \o name \o "' not found")

\* MCPServer.handleToolsCall.  A name is falsy when missing or empty.
handleToolsCall(request, env) ==
  LET params == ParamsOf(request)
      name == params.name
  IN IF name = Undef \/ name = ""
       THEN Responds(createErrorResponse(request.id, InvalidParams, "Tool name is required"),
                     env.breakpoints, <<>>)
     ELSE IF ~ToolFound(name)
       THEN Responds(ToolNotFound(request, name), env.breakpoints, <<>>)
     ELSE InvokeTool(request, env, ToolStart(name, params.hasArgs, params.args, env))

VersionPresent(request) == request.jsonrpc # Undef
MethodDefined(request) == request.method # Undef

\* the guards of handleRequest: !request.jsonrpc || request.jsonrpc !== '2.0'
\* and !request.method
VersionOk(request) == request.jsonrpc # Undef /\ request.jsonrpc = "2.0"
MethodGiven(request) == request.method # Undef /\ request.method # ""

\* MCPServer.handleRequest, given what the transport parsed from the body.
\* For null, reading request.jsonrpc throws inside the try and reading
\* request.id throws again inside the catch.
handleRequest(parsed, env) ==
  LET request == parsed.request
  IN IF parsed.kind = "null"
       THEN Rejects("Cannot read properties of null (reading 'id')")
     ELSE IF ~VersionOk(request)
       THEN Responds(createErrorResponse(request.id, InvalidRequest,
                                         "Invalid JSON-RPC version"),
                     env.breakpoints, <<>>)
     ELSE IF ~MethodGiven(request)
       THEN Responds(createErrorResponse(request.id, InvalidRequest, "Method is required"),
                     env.breakpoints, <<>>)
     ELSE CASE request.method = "initialize" ->
                 Responds(handleInitialize(request), env.breakpoints, <<>>)
            [] request.method = "tools/list" ->
                 Responds(handleToolsList(request), env.breakpoints, <<>>)
            [] request.method = "tools/call" -> handleToolsCall(request, env)
            [] OTHER ->
                 Responds(createErrorResponse(request.id, MethodNotFound,
                            "Method '" \o request.method \o "' not found"),
                          env.breakpoints, <<>>)

\* handleRequest resumed: the adapter answered the await of `frame`.
handleRequestResume(frame, reply, bps) ==
  ToolsCallContinue(frame.request, ToolResume(frame, reply), bps, frame.facadeCalls)

(***************************************************************************)
(* The transport.                                                          *)
(***************************************************************************)
Range(seq) == {seq[i] : i \in DOMAIN seq}

SseMessageOfSuccess(data) ==
  [prefix |-> "data: ", json |-> Stringify([data EXCEPT !.error = NoError]),
   suffix |-> "\n\n"]

\* `data: ${JSON.stringify(data)}\n\n`
SseMessage(data) == [prefix |-> "data: ", json |-> Stringify(data), suffix |-> "\n\n"]

\* forEach over an array whose elements are spliced out while iterating: the
\* entries after a removed one move down and the next is passed over.
RECURSIVE ForEachSpliced(_, _, _, _, _)
ForEachSpliced(entries, i, failing, message, writes) ==
  IF i > Len(entries) THEN [clients |-> entries, writes |-> writes, failing |-> failing]
  ELSE IF entries[i] \in failing
    THEN ForEachSpliced(SubSeq(entries, 1, i - 1) \o SubSeq(entries, i + 1, Len(entries)),
                        i + 1, failing, message,
                        Append(writes, [to |-> entries[i], message |-> message, ok |-> FALSE]))
  ELSE ForEachSpliced(entries, i + 1, failing, message,
                      Append(writes, [to |-> entries[i], message |-> message, ok |-> TRUE]))

\* this.clients.forEach(...) of broadcast.  A JS Set iterates its entry list
\* by position; delete() empties the entry (0 here) without moving the others.
\* client.write throws for the channels in `failing`.
RECURSIVE ForEachClient(_, _, _, _, _)
ForEachClient(entries, i, failing, message, writes) ==
  IF i > Len(entries)
    THEN [clients |-> SelectSeq(entries, LAMBDA c : c # 0), writes |-> writes,
          failing |-> failing]
  ELSE IF entries[i] = 0 THEN ForEachClient(entries, i + 1, failing, message, writes)
  ELSE IF entries[i] \in failing
    THEN ForEachClient([entries EXCEPT ![i] = 0], i + 1, failing, message,
                       Append(writes, [to |-> entries[i], message |-> message, ok |-> FALSE]))
  ELSE ForEachClient(entries, i + 1, failing, message,
                     Append(writes, [to |-> entries[i], message |-> message, ok |-> TRUE]))

broadcastFromSecond(listeners, failing, data) ==
  ForEachClient(listeners, 2, failing, SseMessage(data), <<>>)

\* SSEServer.broadcast: the Listener Set afterwards and the writes attempted
broadcast(listeners, failing, data) ==
  ForEachClient(listeners, 1, failing, SseMessage(data), <<>>)

\* the first event of each channel once the writes of a broadcast are out
FirstEventAfter(writes) ==
  [c \in DOMAIN firstEvent |->
     IF firstEvent[c] = "none" /\ \E i \in DOMAIN writes : writes[i].to = c /\ writes[i].ok
       THEN "data" ELSE firstEvent[c]]

\* What a POST handler has seen so far: whether a session was active when
\* its facade operation began, the calls it has awaited of the IDE and the
\* debug adapter (adapterLog), and the replies to them.
StartCtx == [session |-> session, adapterLog |-> <<>>, adapterReplies |-> <<>>]
Answered(frame, reply) ==
  [session |-> frame.sessionAtStart, adapterLog |-> frame.adapterLog,
   adapterReplies |-> Append(frame.adapterReplies, reply)]

\* A POST handler suspended in handleRequest: its request, the call it
\* awaits and its locals.
Frame(parsed, r, ctx) ==
  [request |-> parsed.request, cmd |-> r.cmd, threadId |-> r.threadId,
   locals |-> r.locals, facadeCalls |-> r.facadeCalls,
   sessionAtStart |-> ctx.session,
   adapterLog |-> Append(ctx.adapterLog, [cmd |-> r.cmd, threadId |-> r.threadId]),
   adapterReplies |-> ctx.adapterReplies]

Suspended == BagToSet(inflight)

\* The exchange a step completed: none, or a POST with its reply.
NoExchange == [kind |-> "none"]
Exchange(parsed, routed, status, response, b, listeners, r, ctx) ==
  [kind |-> "post", body |-> parsed, routed |-> routed, status |-> status,
   response |-> response, replies |-> <<Stringify(response)>>,
   writes |-> b.writes, failing |-> b.failing,
   clientsBefore |-> listeners, clientsAfter |-> b.clients,
   facadeCalls |-> r.facadeCalls, failure |-> r.failure,
   sessionAtStart |-> ctx.session, adapterLog |-> ctx.adapterLog,
   adapterReplies |-> ctx.adapterReplies]

\* handleRequest was not called
NotRouted == [facadeCalls |-> <<>>, failure |-> NoFailure]

NoBroadcast == [clients |-> clients, writes |-> <<>>, failing |-> {}]

\* What the facade reads of the IDE when an operation starts.
Env(configs, nanLineOk) ==
  [session |-> session, breakpoints |-> breakpoints, workspaceFolders |-> workspaceFolders,
   configs |-> configs, nanLineOk |-> nanLineOk]

\* POST /sse from `const response = await handleRequest(request)` on, once
\* handleRequest has come to r: broadcast and reply, or the outer catch.
PostFinish(parsed, r, failing, ctx) ==
  IF r.kind = "reject"
    THEN /\ failing = {}
         /\ last' = Exchange(parsed, TRUE, 500, TransportErrorReply(r.message), NoBroadcast,
                             clients, r, ctx)
         /\ UNCHANGED <<clients, firstEvent, breakpoints>>
  ELSE LET b == broadcast(clients, failing, r.response)
       IN /\ failing \subseteq Range(clients)
          /\ Len(r.breakpoints) <= MaxBreakpoints
          /\ clients' = b.clients
          /\ firstEvent' = FirstEventAfter(b.writes)
          /\ breakpoints' = r.breakpoints
          /\ last' = Exchange(parsed, TRUE, 200, r.response, b, clients, r, ctx)

\* app.post('/sse', ...) up to the reply or to the first await of the adapter
PostSse(body, failing, configs, nanLineOk) ==
  IF body.kind = "unparseable"
    THEN /\ failing = {}
         /\ last' = Exchange(body, FALSE, 400, ParseErrorReply, NoBroadcast, clients,
                             NotRouted, StartCtx)
         /\ UNCHANGED <<clients, nextConn, firstEvent, lifecycle, inflight, session, paused,
                        breakpoints, workspaceFolders>>
  ELSE LET r == handleRequest(body, Env(configs, nanLineOk))
       IN IF r.kind = "await"
            THEN /\ failing = {}
                 /\ BagCardinality(inflight) < MaxInflight
                 /\ inflight' = inflight (+) SetToBag({Frame(body, r, StartCtx)})
                 /\ last' = NoExchange
                 /\ UNCHANGED <<clients, nextConn, firstEvent, lifecycle, session, paused,
                                breakpoints, workspaceFolders>>
          ELSE /\ PostFinish(body, r, failing, StartCtx)
               /\ UNCHANGED <<nextConn, lifecycle, inflight, session, paused,
                              workspaceFolders>>

\* The IDE's side of an awaited call: stopDebugging ends the session, and
\* startDebugging may have brought one up.
SessionAfter(cmd, reply) ==
  IF cmd = "stopDebugging" /\ reply.ok THEN FALSE
  ELSE IF cmd = "startDebugging" /\ reply.ok /\ reply.started THEN TRUE
  ELSE session

\* Replies of the IDE / the debug adapter to an awaited call.
Thread(id) == [id |-> id, name |-> "worker"]
ThreadLists == {<<>>, <<Thread(3), Thread(2)>>}

Reply(ok, isError, message, threads, hasFrames, result, started) ==
  [ok |-> ok, isError |-> isError, message |-> message, threads |-> threads,
   hasFrames |-> hasFrames, result |-> result, started |-> started]

OkReply == Reply(TRUE, FALSE, Undef, <<>>, FALSE, Undef, FALSE)

\* a rejection with an Error, with a value that is no Error (a string), or
\* with undefined
Failures ==
  {Reply(FALSE, TRUE, "not supported", <<>>, FALSE, Undef, FALSE),
   Reply(FALSE, FALSE, "adapter exited", <<>>, FALSE, Undef, FALSE),
   Reply(FALSE, FALSE, Undef, <<>>, FALSE, Undef, FALSE)}

\* A stack trace is to be had exactly while the debuggee is stopped; a
\* running one fails the request or answers without stackFrames.
Replies(cmd) ==
  CASE cmd = "threads" -> Failures \cup {[OkReply EXCEPT !.threads = t] : t \in ThreadLists}
    [] cmd = "stackTrace" ->
         IF paused THEN {[OkReply EXCEPT !.hasFrames = TRUE]} ELSE Failures \cup {OkReply}
    [] cmd = "evaluate" -> Failures \cup {[OkReply EXCEPT !.result = v] : v \in {"42", ""}}
    [] cmd = "startDebugging" ->
         Failures \cup {[OkReply EXCEPT !.started = b] : b \in BOOLEAN}
    [] OTHER -> Failures \cup {OkReply}

\* The adapter answers the await of a suspended handler: the handler runs on
\* to its next await or to its reply.
AdapterRespond(frame, reply, failing) ==
  /\ frame \in Suspended
  /\ reply \in Replies(frame.cmd)
  /\ session' = SessionAfter(frame.cmd, reply)
  /\ paused' = (paused /\ session')
  /\ LET r == handleRequestResume(frame, reply, breakpoints)
         parsed == ObjectBody(frame.request)
         others == inflight (-) SetToBag({frame})
     IN IF r.kind = "await"
          THEN /\ failing = {}
               /\ inflight' = others (+) SetToBag({Frame(parsed, r, Answered(frame, reply))})
               /\ last' = NoExchange
               /\ UNCHANGED <<clients, firstEvent, breakpoints>>
        ELSE /\ PostFinish(parsed, r, failing, Answered(frame, reply))
             /\ inflight' = others
  /\ UNCHANGED <<nextConn, lifecycle, workspaceFolders>>

SseJoinSilently(events, c) == Append(events, "none")

\* res.write('event: connected...') of app.get('/sse', ...): the first event
\* of channel c
SseConnected(events, c) == Append(events, "connected")

SseConnectWhenIdle ==
  /\ server = "listening"
  /\ inflight = EmptyBag
  /\ nextConn <= MaxConns
  /\ firstEvent' = SseConnected(firstEvent, nextConn)
  /\ clients' = Append(clients, nextConn)
  /\ nextConn' = nextConn + 1
  /\ last' = NoExchange
  /\ UNCHANGED <<lifecycle, inflight, session, paused, breakpoints, workspaceFolders>>

\* app.get('/sse', ...): the connected event is written, then the channel joins
SseConnect ==
  /\ server = "listening"
  /\ nextConn <= MaxConns
  /\ firstEvent' = SseConnected(firstEvent, nextConn)
  /\ clients' = Append(clients, nextConn)
  /\ nextConn' = nextConn + 1
  /\ last' = NoExchange
  /\ UNCHANGED <<lifecycle, inflight, session, paused, breakpoints, workspaceFolders>>

SseCloseAborting(c) ==
  /\ c \in Range(clients) \cup ended
  /\ clients' = SelectSeq(clients, LAMBDA x : x # c)
  /\ ended' = ended \ {c}
  /\ inflight' = EmptyBag
  /\ last' = NoExchange
  /\ UNCHANGED <<nextConn, firstEvent, server, session, paused, breakpoints,
                 workspaceFolders>>

\* The connection of channel c closes: req.on('close', ...) deletes it from
\* the Listener Set (a no-op for a channel stop() has taken out already).
SseClose(c) ==
  /\ c \in Range(clients) \cup ended
  /\ clients' = SelectSeq(clients, LAMBDA x : x # c)
  /\ ended' = ended \ {c}
  /\ last' = NoExchange
  /\ UNCHANGED <<nextConn, firstEvent, server, inflight, session, paused, breakpoints,
                 workspaceFolders>>

\* The user starts or ends a debug session in the IDE.
DebugSessionStarted ==
  /\ ~session
  /\ session' = TRUE
  /\ last' = NoExchange
  /\ UNCHANGED <<clients, nextConn, firstEvent, lifecycle, inflight, paused, breakpoints,
                 workspaceFolders>>

DebugSessionTerminated ==
  /\ session
  /\ session' = FALSE
  /\ paused' = FALSE
  /\ last' = NoExchange
  /\ UNCHANGED <<clients, nextConn, firstEvent, lifecycle, inflight, breakpoints,
                 workspaceFolders>>

\* The debuggee stops (a breakpoint, a pause) or runs on.
DebuggeeStopped ==
  /\ session /\ ~paused
  /\ paused' = TRUE
  /\ last' = NoExchange
  /\ UNCHANGED <<clients, nextConn, firstEvent, lifecycle, inflight, session, breakpoints,
                 workspaceFolders>>

DebuggeeResumed ==
  /\ paused
  /\ paused' = FALSE
  /\ last' = NoExchange
  /\ UNCHANGED <<clients, nextConn, firstEvent, lifecycle, inflight, session, breakpoints,
                 workspaceFolders>>

(***************************************************************************)
(* GET /health, and the life of the http server.  server is "null" while   *)
(* this.server is null; otherwise this.server holds an http.Server that is *)
(* "binding" (listen() called, neither 'listening' nor 'error' emitted     *)
(* yet), "listening", "failed" (its bind failed) or "closing" (close()     *)
(* called, its callback not yet run).                                      *)
(***************************************************************************)
healthPlusOne(listeners) == [status |-> "ok", clients |-> Len(listeners) + 1]

\* the body of app.get('/health', ...), but for its timestamp
health(listeners) == [status |-> "ok", clients |-> Len(listeners)]

GetHealth ==
  /\ server = "listening"
  /\ last' = [kind |-> "health", reply |-> health(clients)]
  /\ UNCHANGED <<clients, nextConn, firstEvent, lifecycle, inflight, session, paused,
                 breakpoints, workspaceFolders>>

isRunningNever == FALSE

\* SSEServer.isRunning
isRunning == server # "null"

\* ports: the default one, and one app.listen() throws for (out of range)
DefaultPort == 6010
BadPort == 70000
Ports == {DefaultPort, BadPort}

\* What a step of start() or stop() came to.  kind is "start" for a call
\* that returns at once, "starting" for a call left waiting for the http
\* server and "started" when that call settles ("stop", "stopping",
\* "stopped" likewise); bindFailed says the port could not be bound, bound
\* that a listening socket was opened.
Settled(kind, outcome, error, bindFailed, bound) ==
  [kind |-> kind, outcome |-> outcome, error |-> error, bindFailed |-> bindFailed,
   bound |-> bound, serverBefore |-> server, clientsBefore |-> clients]

Pending(kind, endedNow, broken) ==
  [kind |-> kind, ended |-> endedNow, broken |-> broken, serverBefore |-> server,
   clientsBefore |-> clients]

\* SSEServer.start up to the return of app.listen(): if (this.server) return;
\* a listen() that throws is caught and rejects with this.server left null.
start(port) ==
  /\ IF isRunning
       THEN /\ last' = Settled("start", "resolved", Undef, FALSE, FALSE)
            /\ server' = server
     ELSE IF port = BadPort
       THEN /\ last' = Settled("start", "rejected", "ERR_SOCKET_BAD_PORT", TRUE, FALSE)
            /\ server' = server
     ELSE /\ last' = Pending("starting", {}, {})
          /\ server' = "binding"
  /\ UNCHANGED <<clients, nextConn, firstEvent, ended, inflight, session, paused,
                 breakpoints, workspaceFolders>>

\* the callback of app.listen(): the port is bound, resolve()
startListening ==
  /\ server = "binding"
  /\ server' = "listening"
  /\ last' = Settled("started", "resolved", Undef, FALSE, TRUE)
  /\ UNCHANGED <<clients, nextConn, firstEvent, ended, inflight, session, paused,
                 breakpoints, workspaceFolders>>

startErrorSwallowed ==
  /\ server = "binding"
  /\ server' = "failed"
  /\ last' = Settled("started", "resolved", Undef, TRUE, FALSE)
  /\ UNCHANGED <<clients, nextConn, firstEvent, ended, inflight, session, paused,
                 breakpoints, workspaceFolders>>

\* this.server.on('error', ...): the port could not be bound, reject(error);
\* this.server keeps the http.Server that failed.
startError ==
  /\ server = "binding"
  /\ server' = "failed"
  /\ last' = Settled("started", "rejected", "EADDRINUSE", TRUE, FALSE)
  /\ UNCHANGED <<clients, nextConn, firstEvent, ended, inflight, session, paused,
                 breakpoints, workspaceFolders>>

stopWithoutEnd(broken) ==
  /\ IF ~isRunning
       THEN /\ last' = Settled("stop", "resolved", Undef, FALSE, FALSE)
            /\ UNCHANGED <<clients, ended, server>>
     ELSE /\ ended' = ended
          /\ clients' = <<>>
          /\ server' = "closing"
          /\ last' = Pending("stopping", {}, broken)
  /\ UNCHANGED <<nextConn, firstEvent, inflight, session, paused, breakpoints,
                 workspaceFolders>>

\* SSEServer.stop up to the call of this.server.close(): if (!this.server)
\* return; else every client is ended, the Listener Set cleared, and the http
\* server stops accepting connections.  client.end() throws for the
\* channels in `broken`, which are open no more; the throw is ignored.  A
\* start() still binding is left waiting for a 'listening' that the closed
\* server no longer emits.
stop(broken) ==
  /\ IF ~isRunning
       THEN /\ last' = Settled("stop", "resolved", Undef, FALSE, FALSE)
            /\ UNCHANGED <<clients, ended, server>>
     ELSE /\ ended' = ended \cup (Range(clients) \ broken)
          /\ clients' = <<>>
          /\ server' = "closing"
          /\ last' = Pending("stopping", Range(clients) \ broken, broken)
  /\ UNCHANGED <<nextConn, firstEvent, inflight, session, paused, breakpoints,
                 workspaceFolders>>

\* The callback of this.server.close(): http.Server runs it once every
\* connection has ended (the listeners' and those of POSTs still in
\* progress); this.server = null, resolve().
stopClosed ==
  /\ server = "closing"
  /\ Range(clients) \cup ended = {}
  /\ inflight = EmptyBag
  /\ server' = "null"
  /\ last' = Settled("stopped", "resolved", Undef, FALSE, FALSE)
  /\ UNCHANGED <<clients, nextConn, firstEvent, ended, inflight, session, paused,
                 breakpoints, workspaceFolders>>

(***************************************************************************)
(* The requests clients send.                                              *)
(***************************************************************************)
Ids == {"7", "8"}

BreakpointArgs ==
  {[EmptyArgs EXCEPT !.path = p, !.line = l] : p \in {Undef, "a.js", "/ws/a.js"},
                                                l \in {NoNum, 10}}
    \cup {[EmptyArgs EXCEPT !.path = "a.js", !.line = 10, !.condition = "i > 10"],
          [EmptyArgs EXCEPT !.path = "a.js", !.line = 11]}

EvaluateArgs == {[EmptyArgs EXCEPT !.expression = e] : e \in {Undef, "x + 1"}}

StartArgs == {[EmptyArgs EXCEPT !.configName = c] : c \in {Undef, "Launch", "Missing"}}

StepArgs ==
  {[EmptyArgs EXCEPT !.type = t, !.threadId = th] :
     t \in StepTypes \cup {Undef, "bogus"}, th \in {NoNum, 0, 5}}

ArgsOf(name) ==
  CASE name \in {"set_breakpoint", "remove_breakpoint"} -> BreakpointArgs
    [] name = "evaluate_expression" -> EvaluateArgs
    [] name = "start_debugging" -> StartArgs
    [] name = "step_debugger" -> StepArgs
    [] OTHER -> {EmptyArgs}

GoodBreakpoint == [EmptyArgs EXCEPT !.path = "a.js", !.line = 10]

\* params of tools/call requests: every registered tool with and without
\* arguments, and names the registry does not hold
ToolParams ==
  UNION {{CallParams(n, a) : a \in ArgsOf(n)} \cup {CallNoArgs(n)} : n \in ToolNames}
    \cup {CallParams(n, GoodBreakpoint) : n \in {Undef, "", "no_such_tool"}}
    \cup {CallNoArgs("no_such_tool"), NoParams}

ToolCalls == {Request("2.0", id, "tools/call", p) : id \in Ids, p \in ToolParams}

\* envelopes: every version and method, with and without tools/call-shaped params
Envelopes ==
  {Request(v, id, m, p) :
     v \in {"2.0", "1.0", Undef}, id \in Ids \cup {Undef},
     m \in {Undef, "", "initialize", "tools/list", "tools/call", "resources/list"},
     p \in {NoParams, CallParams("set_breakpoint", GoodBreakpoint),
            CallParams("get_debug_status", EmptyArgs)}}

Bodies == {BadBody, NullBody} \cup {ObjectBody(r) : r \in ToolCalls \cup Envelopes}

\* the requests of the transport's specification
FewBodies ==
  {BadBody, NullBody}
    \cup {ObjectBody(Request("2.0", id, "initialize", NoParams)) : id \in Ids}
    \cup {ObjectBody(Request("2.0", "7", "tools/list", NoParams)),
          ObjectBody(Request("2.0", "7", "tools/call",
                             CallParams("get_debug_status", EmptyArgs))),
          ObjectBody(Request("2.0", "8", "tools/call",
                             CallParams("evaluate_expression",
                                        [EmptyArgs EXCEPT !.expression = "x + 1"])))}
    \cup {ObjectBody(Request("1.0", "8", "tools/call", CallParams("get_debug_status", EmptyArgs)))}

\* launch.json and the launch settings, as listDebugConfigurations reads them
ConfigLists == {<<>>, <<"Launch">>}

(***************************************************************************)
(* Specifications.                                                         *)
(***************************************************************************)
\* activate() has constructed the SSEServer and started it.
Init ==
  /\ clients = <<>>
  /\ nextConn = 1
  /\ firstEvent = <<>>
  /\ ended = {}
  /\ server = "listening"
  /\ inflight = EmptyBag
  /\ last = NoExchange
  /\ session = FALSE
  /\ paused = FALSE
  /\ breakpoints = <<>>
  /\ workspaceFolders = <<"/ws">>

\* What a request can observe of the environment beyond the model's state:
\* the launch configurations on disk, and whether vscode.Position accepts the
\* NaN that a missing line becomes.
ReadsConfigs(body) ==
  body.request.params.name \in {"start_debugging", "list_debug_configurations"}
ConfigsFor(body) == IF ReadsConfigs(body) THEN ConfigLists ELSE {<<>>}
NanLineFor(body) ==
  IF body.request.params.name = "set_breakpoint" /\ body.request.params.args.line = NoNum
    THEN BOOLEAN ELSE {TRUE}

\* `last` only observes the step just taken: it is dropped before the next.
Quiet == last.kind = "none"

Observe ==
  /\ ~Quiet
  /\ last' = NoExchange
  /\ UNCHANGED <<clients, nextConn, firstEvent, lifecycle, inflight, session, paused,
                 breakpoints, workspaceFolders>>

PostWhenIdle(bodies) ==
  /\ Quiet
  /\ server = "listening"
  /\ inflight = EmptyBag
  /\ \E body \in bodies, failing \in SUBSET Range(clients) :
       \E configs \in ConfigsFor(body), nanLineOk \in NanLineFor(body) :
         PostSse(body, failing, configs, nanLineOk)

\* A POST /sse arrives, whatever other POST handlers are suspended.
Post(bodies) ==
  /\ Quiet
  /\ server = "listening"
  /\ \E body \in bodies, failing \in SUBSET Range(clients) :
       \E configs \in ConfigsFor(body), nanLineOk \in NanLineFor(body) :
         PostSse(body, failing, configs, nanLineOk)

Respond ==
  /\ Quiet
  /\ \E frame \in Suspended, failing \in SUBSET Range(clients) :
       \E reply \in Replies(frame.cmd) : AdapterRespond(frame, reply, failing)

Connect == Quiet /\ SseConnect

Close == Quiet /\ \E c \in Range(clients) \cup ended : SseClose(c)

SessionChange == Quiet /\ (DebugSessionStarted \/ DebugSessionTerminated)

Health == Quiet /\ GetHealth

\* The transport with its listeners, and clients that POST concurrently.
Next ==
  \/ Post(FewBodies)
  \/ Respond
  \/ Connect
  \/ Close
  \/ SessionChange
  \/ Health
  \/ Observe

Spec == Init /\ [][Next]_vars

\* The router under every request, from a client that POSTs one request at
\* a time, with or without a workspace folder open.
InitRouter ==
  /\ clients \in {<<>>, <<1>>}
  /\ nextConn = Len(clients) + 1
  /\ firstEvent = [c \in DOMAIN clients |-> "connected"]
  /\ ended = {}
  /\ server = "listening"
  /\ inflight = EmptyBag
  /\ last = NoExchange
  /\ session = FALSE
  /\ paused = FALSE
  /\ breakpoints \in {<<>>, <<FunctionBreakpoint>>}
  /\ workspaceFolders \in {<<>>, <<"/ws">>}

PostOne == Suspended = {} /\ Post(Bodies)

Debuggee == Quiet /\ (DebuggeeStopped \/ DebuggeeResumed)

NextRouter ==
  \/ PostOne
  \/ Respond
  \/ SessionChange
  \/ Debuggee
  \/ Observe

SpecRouter == InitRouter /\ [][NextRouter]_vars

\* The life of the transport: start() and stop() called at any time, with
\* listeners coming and going and POSTs in progress.
LifeBodies ==
  {BadBody,
   ObjectBody(Request("2.0", "7", "initialize", NoParams)),
   ObjectBody(Request("2.0", "8", "tools/call", CallNoArgs("start_debugging")))}

InitLifecycle ==
  /\ clients = <<>>
  /\ nextConn = 1
  /\ firstEvent = <<>>
  /\ ended = {}
  /\ server = "null"
  /\ inflight = EmptyBag
  /\ last = NoExchange
  /\ session = FALSE
  /\ paused = FALSE
  /\ breakpoints = <<>>
  /\ workspaceFolders = <<"/ws">>

Start == Quiet /\ \E port \in Ports : start(port)

StartSettles == Quiet /\ (startListening \/ startError)

Stop == Quiet /\ \E broken \in SUBSET Range(clients) : stop(broken)

StopSettles == Quiet /\ stopClosed

NextLifecycle ==
  \/ Start
  \/ StartSettles
  \/ Stop
  \/ StopSettles
  \/ Post(LifeBodies)
  \/ Respond
  \/ Connect
  \/ Close
  \/ Health
  \/ Observe

SpecLifecycle == InitLifecycle /\ [][NextLifecycle]_vars

(***************************************************************************)
(* Properties.                                                             *)
(***************************************************************************)
Posted == last.kind = "post"
Routed == Posted /\ last.body.kind = "object"
Req == last.body.request
ErrorCode == IF last.response.error.present THEN last.response.error.code ELSE 0
ErrorMessage == IF last.response.error.present THEN last.response.error.message ELSE Undef
NoFacade == last.facadeCalls = <<>> /\ last.adapterLog = <<>>
KnownMethods == {"initialize", "tools/list", "tools/call"}

\* one reply body was sent for the POST, the serialized Response
OneReply == Len(last.replies) = 1 /\ last.replies[1] = Stringify(last.response)

\* C1: a request with version '2.0' and method initialize, tools/list or
\* tools/call gets exactly one Response, whose id is the request's id,
\* whatever the tool, the arguments and the outcome of the facade call.
C1_OneResponseSameId ==
  (Routed /\ Req.jsonrpc = "2.0" /\ Req.method \in KnownMethods) =>
    /\ OneReply
    /\ last.status = 200
    /\ last.response.id = Req.id
    /\ (Req.id # Undef => last.replies[1].id = Req.id)

C1_Witness ==
  /\ Routed /\ Req.jsonrpc = "2.0" /\ Req.method = "tools/call" /\ Req.id = "8"
  /\ last.failure.threw
  /\ last.adapterLog # <<>>

\* C2: every Response emitted (router success, router error, parse error,
\* transport internal error) carries exactly one of result and error.
C2_ResultXorError ==
  Posted =>
    /\ last.response.result.present # last.response.error.present
    /\ \A i \in DOMAIN last.replies :
         ("result" \in DOMAIN last.replies[i]) # ("error" \in DOMAIN last.replies[i])

C2_Witness ==
  /\ Posted /\ last.status = 500
  /\ "error" \in DOMAIN last.replies[1]

\* C3: a request whose version is missing or is not '2.0' gets an
\* InvalidRequest error and no facade operation is invoked, for every method
\* and every params; no such request is ever suspended inside the facade.
C3_BadVersionRejected ==
  /\ (Routed /\ Req.jsonrpc # "2.0") => (ErrorCode = InvalidRequest /\ NoFacade)
  /\ \A frame \in Suspended : frame.request.jsonrpc = "2.0"

C3_Witness ==
  /\ Routed /\ Req.jsonrpc = "1.0" /\ Req.method = "tools/call"
  /\ Req.params.name = "set_breakpoint" /\ Req.params.args.line = 10
  /\ ErrorCode = InvalidRequest

\* C4: with version '2.0', a missing or empty method gets InvalidRequest even
\* when params names a registered tool, any method other than the three known
\* ones gets MethodNotFound, and neither invokes a facade operation.
C4_MethodValidation ==
  (Routed /\ Req.jsonrpc = "2.0") =>
    /\ Req.method \in {Undef, ""} => (ErrorCode = InvalidRequest /\ NoFacade)
    /\ Req.method \notin {Undef, ""} \cup KnownMethods =>
         (ErrorCode = MethodNotFound /\ NoFacade)

C4_Witness ==
  /\ Routed /\ Req.jsonrpc = "2.0" /\ Req.method = ""
  /\ Req.params.name = "set_breakpoint" /\ Req.params.args.line = 10
  /\ ErrorCode = InvalidRequest

\* C5: a tools/call whose params.name is absent or not in the registry gets
\* InvalidParams and invokes no facade operation, whatever its arguments.
C5_UnknownToolRejected ==
  (Routed /\ Req.jsonrpc = "2.0" /\ Req.method = "tools/call"
     /\ ~ToolFound(ParamsOf(Req).name)) =>
    (ErrorCode = InvalidParams /\ NoFacade)

C5_Witness ==
  /\ Routed /\ Req.jsonrpc = "2.0" /\ Req.method = "tools/call"
  /\ Req.params.name = "no_such_tool" /\ Req.params.hasArgs
  /\ ErrorCode = InvalidParams

\* a tools/call for a registered tool that leaves out a field the tool's
\* inputSchema requires, or the arguments altogether
MissingRequired(request) ==
  /\ request.jsonrpc = "2.0" /\ request.method = "tools/call"
  /\ ToolFound(ParamsOf(request).name)
  /\ ToolRequired(ParamsOf(request).name) # {}
  /\ \/ ~ParamsOf(request).hasArgs
     \/ ~(ToolRequired(ParamsOf(request).name) \subseteq ArgFields(ParamsOf(request).args))

\* C6: a tools/call for a registered tool that omits a required field is
\* rejected with InvalidParams before any facade operation is invoked.
C6_MissingRequiredRejected ==
  /\ (Routed /\ MissingRequired(Req)) => (ErrorCode = InvalidParams /\ NoFacade)
  /\ \A frame \in Suspended : ~MissingRequired(frame.request)

\* C7 as claimed: a failed facade operation yields InternalError whose message
\* is the failure's own message, with the request's id, and the transport's
\* catch is not reached.
C7_FailureMessageKept ==
  (Posted /\ last.failure.threw) =>
    /\ last.status = 200
    /\ ErrorCode = InternalError
    /\ ErrorMessage = last.failure.message
    /\ last.response.id = Req.id

\* C7 amended: the message is the failure's own message when the failure is
\* an Error, and 'Tool execution failed' when the value thrown is no Error.
C7_FailureCaught ==
  (Posted /\ last.failure.threw) =>
    /\ last.status = 200
    /\ OneReply
    /\ ErrorCode = InternalError
    /\ last.failure.isError => ErrorMessage = last.failure.message
    /\ ~last.failure.isError => ErrorMessage = "Tool execution failed"
    /\ last.response.id = Req.id

C7_Witness ==
  /\ Posted /\ last.failure.threw /\ last.failure.isError
  /\ last.failure.message = "not supported"
  /\ Req.params.name = "stop_debugging"
  /\ ErrorMessage = "not supported"

\* the write attempts of the broadcast that reached listener c
WritesTo(c) == {i \in DOMAIN last.writes : last.writes[i].to = c}

\* C8: when the router has produced a Response, with N listeners open and
\* every write succeeding, the same payload goes out N+1 times: once to each
\* listener and once as the POST reply.
C8_FanOut ==
  (Posted /\ last.status = 200 /\ last.failing = {}) =>
    /\ Len(last.replies) = 1
    /\ Len(last.writes) = Len(last.clientsBefore)
    /\ \A c \in Range(last.clientsBefore) : Cardinality(WritesTo(c)) = 1
    /\ \A i \in DOMAIN last.writes :
         /\ last.writes[i].ok
         /\ last.writes[i].message.json = last.replies[1]

C8_Witness ==
  /\ Posted /\ last.status = 200 /\ last.failing = {}
  /\ Len(last.clientsBefore) = 3
  /\ Len(last.writes) = 3

\* C9: a write that fails during a broadcast removes exactly that listener;
\* every other listener gets the payload exactly once and the POST gets its
\* normal reply.
C9_FailureContained ==
  (Posted /\ last.status = 200) =>
    /\ last.clientsAfter =
         SelectSeq(last.clientsBefore, LAMBDA c : c \notin last.failing)
    /\ clients = last.clientsAfter
    /\ \A c \in Range(last.clientsBefore) \ last.failing :
         /\ Cardinality(WritesTo(c)) = 1
         /\ \A i \in WritesTo(c) :
              last.writes[i].ok /\ last.writes[i].message.json = last.replies[1]
    /\ OneReply

C9_Witness ==
  /\ Posted /\ last.status = 200
  /\ last.clientsBefore = <<1, 2, 3>>
  /\ last.failing = {1}
  /\ last.clientsAfter = <<2, 3>>

\* C10: a POST whose string body does not parse gets {id: null, error:
\* {code: -32700, message: 'Parse error'}}; the router is not invoked, no
\* facade operation runs and the Listener Set is unchanged.
C10_ParseError ==
  (Posted /\ last.body.kind = "unparseable") =>
    /\ last.replies =
         << [jsonrpc |-> "2.0", id |-> Null,
             error |-> [code |-> ParseError, message |-> "Parse error"]] >>
    /\ ~last.routed
    /\ NoFacade
    /\ last.writes = <<>>
    /\ clients = last.clientsBefore

C10_Witness ==
  /\ Posted /\ last.body.kind = "unparseable"
  /\ Len(clients) = 2
  /\ Suspended # {}

\* listener c got the reply of the POST as one broadcast event
Received(c) ==
  /\ Cardinality(WritesTo(c)) = 1
  /\ \A i \in WritesTo(c) :
       /\ last.writes[i].ok
       /\ last.writes[i].message.prefix = "data: "
       /\ last.writes[i].message.json = last.replies[1]

\* the listeners open when the reply is sent whose channel takes the write
OpenListeners == Range(last.clientsBefore) \ last.failing

\* C11 as claimed: every POST that gets a reply (success, router error, parse
\* error, transport internal error) has that reply broadcast to every listener
\* that is open.
C11_EveryExchangeSeen ==
  Posted => \A c \in OpenListeners : Received(c)

\* C11 amended: every POST the router answers with a Response (success or
\* router error) has that Response broadcast to every open listener; the
\* parse-error reply and the transport's internal-error reply go to the POST
\* alone and no listener is written to.
C11_RoutedExchangeSeen ==
  Posted =>
    /\ last.status = 200 => \A c \in OpenListeners : Received(c)
    /\ last.status # 200 =>
         /\ last.status \in {400, 500}
         /\ last.body.kind \in {"unparseable", "null"}
         /\ last.writes = <<>>

C11_Witness ==
  /\ Posted /\ last.status = 200
  /\ last.response.error.present
  /\ Len(last.clientsBefore) >= 2
  /\ last.failing = {}
  /\ Suspended # {}

\* C12: start() called while this.server is set returns at once, resolved:
\* no listening socket is opened for it, and the Listener Set and the state
\* of the server are what they were.
C12_StartWhileRunning ==
  (last.kind \in {"start", "starting"} /\ last.serverBefore # "null") =>
    /\ last.kind = "start"
    /\ last.outcome = "resolved"
    /\ ~last.bound /\ ~last.bindFailed
    /\ server = last.serverBefore
    /\ clients = last.clientsBefore

C12_Witness ==
  /\ last.kind = "start" /\ last.serverBefore = "listening"
  /\ Len(clients) = 2
  /\ Suspended # {}

\* C13: when the port cannot be bound, whether listen() throws or the http
\* server emits 'error', the start() call that tried to bind is rejected with
\* that error and opens no listening socket.
C13_BindErrorSurfaces ==
  (last.kind \in {"start", "started"} /\ last.bindFailed) =>
    /\ last.outcome = "rejected"
    /\ last.error \in {"EADDRINUSE", "ERR_SOCKET_BAD_PORT"}
    /\ ~last.bound
    /\ server # "listening"

C13_Witness ==
  /\ last.kind = "started" /\ last.bindFailed
  /\ last.error = "EADDRINUSE"
  /\ nextConn > 1

\* C14: stop() on a transport whose server is set ends every channel of the
\* Listener Set that is open and empties the set; when it completes, and for as long as
\* the transport stays stopped, the Listener Set is empty, no channel it
\* ended is still open, no socket is held and isRunning() is false; stop()
\* on a stopped transport changes nothing.
C14_StopClosesAll ==
  /\ last.kind = "stopping" =>
       /\ last.ended = Range(last.clientsBefore) \ last.broken
       /\ last.ended \subseteq ended
       /\ clients = <<>>
       /\ server = "closing"
  /\ last.kind = "stopped" => (server = "null" /\ last.outcome = "resolved")
  /\ server = "null" => (clients = <<>> /\ ended = {} /\ ~isRunning)
  /\ last.kind = "stop" =>
       /\ last.serverBefore = "null" /\ server = "null"
       /\ clients = last.clientsBefore
       /\ last.outcome = "resolved"

C14_Witness ==
  /\ last.kind = "stopped"
  /\ nextConn > 2
  /\ session

\* the GET /sse channels opened so far
Channels == 1..(nextConn - 1)

\* C15: a GET /sse that arrives is given a channel whose first event is
\* 'connected' and which joins the Listener Set; every broadcast event is
\* written to members of the Listener Set only, so after 'connected'; a
\* channel that has left the set (its connection closed) never rejoins it and
\* is written to no more.
C15_ConnectedFirst ==
  /\ [](/\ DOMAIN firstEvent = Channels
        /\ \A c \in Channels : firstEvent[c] = "connected"
        /\ Range(clients) \subseteq Channels
        /\ Posted => \A i \in DOMAIN last.writes :
                       /\ last.writes[i].to \in Range(last.clientsBefore)
                       /\ firstEvent[last.writes[i].to] = "connected")
  /\ [][/\ nextConn' # nextConn =>
            /\ nextConn' = nextConn + 1
            /\ clients' = Append(clients, nextConn)
            /\ firstEvent'[nextConn] = "connected"
         /\ \A c \in Channels : c \notin Range(clients) => c \notin Range(clients')]_vars

C15_Witness ==
  /\ Posted /\ last.status = 200
  /\ nextConn = 4
  /\ last.clientsBefore = <<1, 3>>
  /\ Len(last.writes) = 2

\* a step that changes the Listener Set is a connect, a disconnect, a
\* broadcast with a failed write, or stop()
ListenerSetChange ==
  clients' # clients =>
    \/ nextConn' = nextConn + 1 /\ clients' = Append(clients, nextConn)
    \/ /\ last'.kind = "none"
       /\ \E c \in Range(clients) : clients' = SelectSeq(clients, LAMBDA x : x # c)
    \/ /\ last'.kind = "post" /\ last'.failing # {}
       /\ clients' = SelectSeq(clients, LAMBDA x : x \notin last'.failing)
    \/ last'.kind = "stopping" /\ clients' = <<>>

\* GET /health has no effect
HealthChange ==
  last'.kind = "health" =>
    UNCHANGED <<clients, nextConn, firstEvent, ended, server, inflight, session,
                paused, breakpoints, workspaceFolders>>

\* C16: the Listener Set changes only when a listener connects, when one
\* disconnects, when a broadcast write fails, and in stop(); GET /health, a
\* POST that ends in a parse error and a POST whose writes all succeed leave
\* it as it was; GET /health changes nothing else either, and the clients
\* count it reports is the size of the Listener Set.
C16_ListenerSetFrame ==
  /\ [](/\ last.kind = "health" =>
             (last.reply.status = "ok" /\ last.reply.clients = Len(clients))
        /\ (Posted /\ (last.body.kind = "unparseable" \/ last.failing = {})) =>
             clients = last.clientsBefore)
  /\ [][ListenerSetChange /\ HealthChange]_vars

C16_Witness ==
  /\ last.kind = "health"
  /\ last.reply.clients = 2
  /\ nextConn = 4
  /\ Suspended # {}

\* a tools/call the router hands to the facade operation of tool `name`
Calls(name) ==
  /\ Routed /\ Req.jsonrpc = "2.0" /\ Req.method = "tools/call"
  /\ Req.params.name = name

\* the DebugStatus a successful get_debug_status answered with
Snapshot == last.response.result.text

\* the requests the handler made of the adapter, by command
Requested(cmds) == {i \in DOMAIN last.adapterLog : last.adapterLog[i].cmd \in cmds}

\* the adapter failed the thread listing, or listed no thread
ThreadListingFailed == ~last.adapterReplies[1].ok
NoThreadListed == last.adapterReplies[1].ok /\ Len(last.adapterReplies[1].threads) = 0

\* C17: with a session active, get_debug_status answers with a snapshot
\* whatever the adapter does: when the thread listing fails, for any reason,
\* or lists no thread, the snapshot has isActive true, the one thread
\* {id: 1, name: 'main'} and activeThreadId 1, and isPaused false when the
\* listing failed.
C17_StatusNeverFails ==
  (Calls("get_debug_status") /\ last.sessionAtStart) =>
    /\ ~last.response.error.present
    /\ Snapshot.isActive
    /\ (ThreadListingFailed \/ NoThreadListed) =>
         (Snapshot.threads = <<MainThread>> /\ Snapshot.activeThreadId = 1)
    /\ ThreadListingFailed => ~Snapshot.isPaused

\* C18: in every snapshot get_debug_status returns with a session active,
\* isPaused is true exactly when the adapter can give a stack trace for the
\* active thread, on the path where the thread listing failed too; a failed
\* stack-trace request gives isPaused false in a success Response.
C18_PausedIffStackTrace ==
  (Calls("get_debug_status") /\ last.sessionAtStart) =>
    /\ ~last.response.error.present => Snapshot.isPaused = paused
    /\ (Len(last.adapterReplies) = 2 /\ ~last.adapterReplies[2].ok) =>
         (~last.response.error.present /\ ~Snapshot.isPaused)

\* C19: with no session active, get_debug_status answers isActive false and
\* isPaused false, its JSON has none of activeSession, threads,
\* activeThreadId and stackFrames, nothing is asked of the adapter, and every
\* source breakpoint the IDE holds is listed.
C19_StatusWithoutSession ==
  (Calls("get_debug_status") /\ ~last.sessionAtStart) =>
    /\ ~last.response.error.present /\ last.status = 200
    /\ ~Snapshot.isActive /\ ~Snapshot.isPaused
    /\ DOMAIN StringifyStatus(Snapshot) = {"isActive", "isPaused", "breakpoints"}
    /\ last.adapterLog = <<>> /\ last.adapterReplies = <<>>
    /\ Len(Snapshot.breakpoints) = Len(SourceBreakpoints(breakpoints))
    /\ \A i \in DOMAIN Snapshot.breakpoints :
         /\ Snapshot.breakpoints[i].line = LinePlusOne(SourceBreakpoints(breakpoints)[i].line)
         /\ Snapshot.breakpoints[i].path =
              getRelativePath(workspaceFolders, SourceBreakpoints(breakpoints)[i].path)

C19_Witness ==
  /\ Calls("get_debug_status") /\ ~last.sessionAtStart
  /\ Len(breakpoints) = 2
  /\ Len(Snapshot.breakpoints) = 1
  /\ Snapshot.breakpoints[1].line = 10

\* C20: with a session active, step_debugger with a type that is none of the
\* five gets InternalError 'Unknown step type: <type>' with the request's id
\* and no stepping primitive is asked of the adapter, neither before the
\* reply nor by a handler still suspended; a type that is one of the five
\* has its one primitive asked, once.
C20_StepTypeChecked ==
  /\ (Calls("step_debugger") /\ Req.params.hasArgs /\ last.sessionAtStart) =>
       IF Req.params.args.type \in StepTypes
         THEN /\ Cardinality(Requested(StepCommands)) = 1
              /\ Requested({StepCommand(Req.params.args.type)}) = Requested(StepCommands)
         ELSE /\ ErrorCode = InternalError
              /\ ErrorMessage = "Unknown step type: " \o Req.params.args.type
              /\ last.response.id = Req.id
              /\ Requested(StepCommands) = {}
  /\ \A frame \in Suspended :
       (frame.request.params.name = "step_debugger" /\ frame.cmd \in StepCommands) =>
         /\ frame.request.params.args.type \in StepTypes
         /\ frame.cmd = StepCommand(frame.request.params.args.type)

C20_Witness ==
  /\ Calls("step_debugger") /\ last.sessionAtStart
  /\ Req.params.args.type = "bogus"
  /\ Req.params.args.threadId = NoNum
  /\ Len(last.adapterLog) = 1
  /\ ErrorMessage = "Unknown step type: bogus"

\* the thread a step is to act on when the request names none: the first
\* the adapter lists, or thread 1
ResolvedThread(reply) ==
  IF reply.ok /\ Len(reply.threads) > 0 THEN reply.threads[1].id ELSE 1

\* a step_debugger request that carries arguments without a threadId
StepWithoutThread(request) ==
  /\ request.params.name = "step_debugger" /\ request.params.hasArgs
  /\ request.params.args.threadId = NoNum

\* C21: step_debugger without a threadId asks the adapter for its threads
\* first and then issues the stepping primitive with the id of the first
\* thread listed, or with 1 when the listing fails or lists no thread; no
\* handler is suspended at a stepping primitive before the listing was
\* answered.
C21_ThreadResolvedFirst ==
  /\ (Calls("step_debugger") /\ StepWithoutThread(Req) /\ last.sessionAtStart
        /\ Req.params.args.type \in StepTypes) =>
       /\ Len(last.adapterLog) = 2
       /\ last.adapterLog[1].cmd = "threads"
       /\ last.adapterLog[2] =
            [cmd |-> StepCommand(Req.params.args.type),
             threadId |-> ResolvedThread(last.adapterReplies[1])]
  /\ \A frame \in Suspended :
       StepWithoutThread(frame.request) =>
         \/ frame.cmd = "threads" /\ Len(frame.adapterLog) = 1
         \/ /\ frame.cmd \in StepCommands
            /\ Len(frame.adapterLog) = 2
            /\ frame.adapterLog[1].cmd = "threads"
            /\ frame.threadId = ResolvedThread(frame.adapterReplies[1])

C21_Witness ==
  /\ Calls("step_debugger") /\ StepWithoutThread(Req) /\ last.sessionAtStart
  /\ Req.params.args.type = "stepInto"
  /\ last.adapterLog[2] = [cmd |-> "stepIn", threadId |-> 3]
  /\ ~last.response.error.present

\* what a get_debug_status would list of the breakpoints the IDE holds now
StatusView ==
  BreakpointView([breakpoints |-> breakpoints, workspaceFolders |-> workspaceFolders])

\* the file a path names: itself when absolute, else under the first
\* workspace folder
FileOf(p) ==
  IF IsAbsolute(p) \/ Len(workspaceFolders) = 0 THEN p ELSE Join(workspaceFolders[1], p)

\* the entries of a breakpoint listing at a file and 1-based line
EntriesAt(view, p, line) ==
  {i \in DOMAIN view : view[i].path # Undef /\ FileOf(view[i].path) = FileOf(p)
                         /\ view[i].line = line}

\* a tools/call of the breakpoint tool `name`, with path and line, that succeeded
BreakpointCall(exchange, name) ==
  /\ exchange.kind = "post" /\ exchange.body.kind = "object"
  /\ exchange.body.request.jsonrpc = "2.0"
  /\ exchange.body.request.method = "tools/call"
  /\ exchange.body.request.params.name = name
  /\ exchange.body.request.params.hasArgs
  /\ exchange.body.request.params.args.line # NoNum
  /\ ~exchange.response.error.present

\* a remove_breakpoint takes out of the listing the entries at its path and
\* line, and no other
RemoveStep ==
  BreakpointCall(last', "remove_breakpoint") =>
    LET args == last'.body.request.params.args
        kept == {i \in DOMAIN StatusView : i \notin EntriesAt(StatusView, args.path, args.line)}
    IN StatusView' = SelectSeq(StatusView, LAMBDA v : \E i \in kept : StatusView[i] = v)

\* C22: after a set_breakpoint(path, line) that succeeded, a get_debug_status
\* lists a breakpoint at that file with the same 1-based line (under the
\* same path string when the path is relative); after a remove_breakpoint
\* that succeeded it lists none at that path and line, however often it was
\* set, and the entries at other path/line pairs are what they were; what
\* get_debug_status answers is the listing of the breakpoints held then.
C22_BreakpointRoundTrip ==
  /\ [](/\ BreakpointCall(last, "set_breakpoint") =>
             /\ EntriesAt(StatusView, Req.params.args.path, Req.params.args.line) # {}
             /\ ~IsAbsolute(Req.params.args.path) =>
                  \E i \in DOMAIN StatusView :
                    /\ StatusView[i].path = Req.params.args.path
                    /\ StatusView[i].line = Req.params.args.line
        /\ BreakpointCall(last, "remove_breakpoint") =>
             EntriesAt(StatusView, Req.params.args.path, Req.params.args.line) = {}
        /\ (Calls("get_debug_status") /\ ~last.response.error.present) =>
             Snapshot.breakpoints = StatusView)
  /\ [][RemoveStep]_vars

C22_Witness ==
  /\ BreakpointCall(last, "remove_breakpoint")
  /\ Req.params.args.path = "/ws/a.js" /\ Req.params.args.line = 10
  /\ Len(StatusView) = 1
  /\ StatusView[1].path = "a.js" /\ StatusView[1].line = 11

\* a GET /sse or a GET /health is served without any suspended POST handler
\* moving on
ServedBesideFacade ==
  (nextConn' # nextConn \/ last'.kind = "health") => inflight' = inflight

\* C23: while POST handlers are suspended in a facade call, however long,
\* a listening transport can take a new GET /sse listener into the Listener
\* Set and can answer GET /health; serving either leaves the suspended
\* handlers where they are.
C23_ServesWhileFacadeOutstanding ==
  /\ []((Suspended # {} /\ server = "listening") =>
          /\ ENABLED GetHealth
          /\ nextConn <= MaxConns => ENABLED SseConnect)
  /\ [][ServedBesideFacade]_vars

C23_Witness ==
  /\ BagCardinality(inflight) = MaxInflight
  /\ last.kind = "health"
  /\ last.reply.clients = MaxConns

\* the listeners a broadcast wrote to, in the order of the writes
WrittenTo(exchange) == [i \in DOMAIN exchange.writes |-> exchange.writes[i].to]

\* a step in which a listener leaves the Listener Set by disconnecting
\* leaves every suspended POST handler as it is
DisconnectKeepsPosts ==
  (last'.kind = "none" /\ Len(clients') < Len(clients)) => inflight' = inflight

\* a Response is broadcast to the Listener Set of the moment it is ready
BroadcastToCurrentSet ==
  (last'.kind = "post" /\ last'.status = 200) =>
    /\ last'.clientsBefore = clients
    /\ WrittenTo(last') = clients

\* C24: a listener that disconnects while a POST is suspended in its facade
\* call does not abort the POST: the handler stays suspended, can be resumed
\* by a reply of the adapter, and when it has its Response it replies once
\* and writes the payload to exactly the listeners of the Listener Set at
\* that moment, so not to one that left meanwhile and also to one that joined
\* meanwhile.
C24_DisconnectDoesNotAbort ==
  /\ [](/\ \A frame \in Suspended :
             ENABLED (\E reply \in Replies(frame.cmd) : AdapterRespond(frame, reply, {}))
        /\ (Posted /\ last.status = 200 /\ last.adapterLog # <<>>) =>
             /\ OneReply
             /\ WrittenTo(last) = last.clientsBefore
             /\ \A i \in DOMAIN last.writes :
                  last.writes[i].message.json = last.replies[1])
  /\ [][DisconnectKeepsPosts /\ BroadcastToCurrentSet]_vars

C24_Witness ==
  /\ Posted /\ last.status = 200
  /\ Len(last.adapterLog) = 2
  /\ nextConn = 3
  /\ last.clientsBefore = <<2>>
  /\ WrittenTo(last) = <<2>>
  /\ last.failing = {}

\* the step received a POST and handed it to the router: it was answered at
\* once, or its handler is now suspended at its first await
AnsweredAtOnce(exchange) ==
  exchange.kind = "post" /\ exchange.routed /\ exchange.adapterLog = <<>>

\* C25 as claimed: the router and facade processing of a POST does not begin
\* before the Response of every POST received earlier has been produced: no
\* two handlers are in progress together, and no POST is routed while
\* another handler is suspended.
C25_OneAfterAnother ==
  /\ BagCardinality(inflight) <= 1
  /\ AnsweredAtOnce(last) => inflight = EmptyBag

\* in one step one POST handler runs, and no other moves: a POST received is
\* answered at once or joins the suspended handlers; a suspended handler that
\* is resumed is answered or suspended again at its next await
OneHandlerRuns ==
  /\ AnsweredAtOnce(last') => inflight' = inflight
  /\ (last'.kind = "post" /\ last'.adapterLog # <<>>) =>
       \E frame \in Suspended :
         /\ frame.request = last'.body.request
         /\ frame.adapterLog = last'.adapterLog
         /\ inflight' = inflight (-) SetToBag({frame})
  /\ (last'.kind # "post" /\ inflight' # inflight) =>
       \E next \in BagToSet(inflight') :
         \/ Len(next.adapterLog) = 1 /\ inflight' = inflight (+) SetToBag({next})
         \/ \E frame \in Suspended :
              /\ next.request = frame.request
              /\ Len(next.adapterLog) = Len(frame.adapterLog) + 1
              /\ inflight' = (inflight (-) SetToBag({frame})) (+) SetToBag({next})

InitializeBody == ObjectBody(Request("2.0", "7", "initialize", NoParams))

\* C25 amended: POST handlers never run in parallel, each runs alone from
\* its receipt to its first facade await or its reply and from a resumption
\* to the next; but a handler suspended in a facade call does not hold back
\* later POSTs: a POST received meanwhile is routed and answered at once, so
\* Responses go out in the order they are produced, not the order of receipt.
C25_OneHandlerAtATime ==
  /\ []((Suspended # {} /\ Quiet /\ server = "listening") =>
          ENABLED Post({InitializeBody}))
  /\ [][OneHandlerRuns]_vars

C25_Witness ==
  /\ AnsweredAtOnce(last) /\ last.status = 200
  /\ Req.method = "initialize"
  /\ BagCardinality(inflight) = MaxInflight
  /\ Len(last.writes) = 1

\* the codes the server answers with (MCPErrorCode but for ServerError)
EmittedCodes == {ParseError, InvalidRequest, MethodNotFound, InvalidParams, InternalError}

\* the JSON of a Response carries no error, or one with a code of the five
CodeOfTheFive(json) == "error" \in DOMAIN json => json.error.code \in EmittedCodes

\* C26: every error Response the server emits, as the reply of a POST or as
\* a broadcast event, from the router or from the transport's own catches,
\* carries one of the codes -32700, -32600, -32601, -32602, -32603, for
\* every request and whatever the facade and the adapter do.
C26_CodesOfTheFive ==
  Posted =>
    /\ last.response.error.present => last.response.error.code \in EmittedCodes
    /\ \A i \in DOMAIN last.replies : CodeOfTheFive(last.replies[i])
    /\ \A i \in DOMAIN last.writes : CodeOfTheFive(last.writes[i].message.json)

C26_Witness ==
  /\ Posted /\ ErrorCode = MethodNotFound
  /\ Req.method = "resources/list"
  /\ Len(last.writes) = 1
  /\ last.writes[1].message.json.error.code = MethodNotFound

\* C27: once a start() has failed on a bind error, whether listen() threw or
\* the http server emitted 'error', isRunning() is false, and no later
\* start() returns as already running on the server that failed to bind.
C27_FailedStartLeavesStopped ==
  /\ (last.kind \in {"start", "started"} /\ last.bindFailed) => ~isRunning
  /\ server = "failed" => ~isRunning
  /\ (last.kind = "start" /\ last.outcome = "resolved") => last.serverBefore # "failed"

\* a listening server stops listening only in a step of stop()
ListensUntilStop ==
  (server = "listening" /\ server' # "listening") => last'.kind = "stopping"

\* C28: whenever a start() call resolves, at once or when the http server
\* has settled, the transport is listening at that moment, also when the
\* call was made while another start() was binding or a stop() was closing
\* the server; and a listening transport stays so until stop() is called.
C28_StartedMeansListening ==
  /\ []((last.kind \in {"start", "started"} /\ last.outcome = "resolved") =>
          server = "listening")
  /\ [][ListensUntilStop]_vars

\* a step_debugger request that carries a threadId
StepWithThread(request) ==
  /\ request.params.name = "step_debugger" /\ request.params.hasArgs
  /\ request.params.args.threadId # NoNum

\* C29: step_debugger with a threadId, 0 included, asks the adapter for the
\* stepping primitive alone, with exactly that threadId: no thread listing
\* is asked, neither before the reply nor by a handler still suspended.
C29_GivenThreadUsed ==
  /\ (Calls("step_debugger") /\ StepWithThread(Req) /\ last.sessionAtStart
        /\ Req.params.args.type \in StepTypes) =>
       last.adapterLog =
         << [cmd |-> StepCommand(Req.params.args.type),
             threadId |-> Req.params.args.threadId] >>
  /\ \A frame \in Suspended :
       StepWithThread(frame.request) =>
         /\ frame.cmd # "threads"
         /\ frame.threadId = frame.request.params.args.threadId

\* the tools that act on the active debug session
SessionTools == {"evaluate_expression", "stop_debugging", "step_debugger"}

\* a tools/call of a session tool made while no debug session is active
NoSessionCall(exchange) ==
  /\ exchange.kind = "post" /\ exchange.body.kind = "object"
  /\ exchange.body.request.jsonrpc = "2.0"
  /\ exchange.body.request.method = "tools/call"
  /\ exchange.body.request.params.name \in SessionTools
  /\ ~exchange.sessionAtStart

\* such a call changes neither the breakpoints nor the session
NoSessionStep ==
  NoSessionCall(last') =>
    /\ breakpoints' = breakpoints
    /\ session' = session /\ ~session'
    /\ paused' = paused
    /\ inflight' = inflight

\* C30: with no debug session active, evaluate_expression, stop_debugging
\* and step_debugger, with any arguments or none and any step type, are
\* answered InternalError 'No active debug session' with the request's id;
\* nothing is asked of the IDE or the adapter, no handler is left suspended,
\* and the breakpoints and the session are what they were.
C30_NoSessionRejected ==
  /\ [](/\ NoSessionCall(last) =>
             /\ last.status = 200
             /\ ErrorCode = InternalError
             /\ ErrorMessage = "No active debug session"
             /\ last.response.id = Req.id
             /\ last.adapterLog = <<>> /\ last.adapterReplies = <<>>
        /\ \A frame \in Suspended :
             frame.request.params.name \in SessionTools => frame.sessionAtStart)
  /\ [][NoSessionStep]_vars

C30_Witness ==
  /\ NoSessionCall(last)
  /\ Req.params.name = "step_debugger" /\ Req.params.args.type = "bogus"
  /\ ErrorMessage = "No active debug session"
  /\ Len(breakpoints) = MaxBreakpoints
====
